---- MODULE Spec2Model ----
(***************************************************************************)
(* Stock-movement validation and ledger posting of the inventory           *)
(* application: the four pages Receipts, Deliveries, Transfers and         *)
(* Adjustments issue sequences of awaited store requests from their        *)
(* handlers.  Every awaited request is one atomic step at the store; the   *)
(* handler's local variables live in an invocation record between steps.   *)
(***************************************************************************)
EXTENDS Integers, Sequences, FiniteSets, Bags, TLC

(* ------------------------------ bounds --------------------------------- *)
\* MaxQty: largest quantity typed into a form; MaxLines: product rows of a
\* receipt or delivery form; MaxLinesOverlap: the same where validations
\* overlap; MaxDocs: documents created; MaxClicks: Validate clicks;
\* MaxFailures: store requests that fail; MaxRaceDocs, MaxRaceClicks:
\* documents and clicks where two validations meet on one pair;
\* MaxRetryDocs, MaxRetryClicks: documents and clicks where a refused delivery
\* is validated again; MaxFormDocs: adjustments created where the dialog is
\* followed event by event.
\* Quantities are whole numbers: the decimal arithmetic of the store and the
\* floating-point arithmetic of the page are not represented.
MaxQty == 1
MaxLines == 2
MaxLinesOverlap == 1
MaxDocs == 2
MaxClicks == 3
MaxFailures == 1
MaxRaceDocs == 3
MaxRaceClicks == 3
MaxRetryDocs == 3
MaxRetryClicks == 4
MaxFormDocs == 1

(* --------------------------- reference data ---------------------------- *)
Products == {"X1", "X2"}
Warehouses == {"WH-MAIN", "WH-SEC"}
Quantities == 1 .. MaxQty
CountedQuantities == {-1} \cup (0 .. MaxQty)
Kinds == {"receipt", "delivery", "transfer", "adjustment"}
Invocations == {1, 2}

\* the product and the warehouse of the specifications that follow one pair
RaceProduct == "X1"

RaceWarehouse == "WH-MAIN"

VARIABLES
    stock_levels,       \* table stock_levels: set of rows
    stock_movements,    \* table stock_movements: bag of rows (the ledger)
    receipts,           \* table receipts: sequence of headers, id = index
    receipt_lines,      \* table receipt_lines: per receipt id, its lines
    deliveries,         \* table deliveries
    delivery_lines,     \* table delivery_lines
    internal_transfers, \* table internal_transfers
    stock_adjustments,  \* table stock_adjustments
    ui,                 \* per page, the ids listed with a Validate button
    inv,                \* the handler invocations in flight
    form,               \* state of the Create Stock Adjustment dialog
    clicks,             \* number of Validate clicks so far (logical time)
    pre,                \* store contents when the last isolated click was made
    products,           \* table products: per product id, its row
    dashboard,          \* the Dashboard page: loader position, locals, stats
    productsPage,       \* the Products page: its products and stockLevels state
    failures,           \* number of store requests that have failed so far
    notice              \* the last submit of the Create Transfer dialog

vars == <<stock_levels, stock_movements, receipts, receipt_lines, deliveries,
          delivery_lines, internal_transfers, stock_adjustments, ui, inv,
          form, clicks, pre, products, dashboard, productsPage, failures,
          notice>>

\* the product master data and the two pages that display it
pages == <<products, dashboard, productsPage>>

docs == <<receipts, receipt_lines, deliveries, delivery_lines,
          internal_transfers, stock_adjustments>>

(* ------------------------------ the store ------------------------------ *)
NoRow == [null |-> TRUE]

\* .from("stock_levels").select("*").eq(product_id).eq(warehouse_id).single():
\* the row when exactly one matches, otherwise data is null.
single(levels, p, w) ==
    LET rows == {r \in levels : r.product_id = p /\ r.warehouse_id = w}
    IN  IF Cardinality(rows) = 1 THEN CHOOSE r \in rows : TRUE ELSE NoRow

\* (variant that adds to the row what the caller added to the row it had read)
update_quantity_relative(levels, existing, q) ==
    {IF r.product_id = existing.product_id
        /\ r.warehouse_id = existing.warehouse_id
     THEN [r EXCEPT !.quantity = @ + (q - existing.quantity)] ELSE r :
         r \in levels}

\* (variant that matches the rows by product alone)
update_quantity_by_product(levels, existing, q) ==
    {IF r.product_id = existing.product_id
     THEN [r EXCEPT !.quantity = q] ELSE r : r \in levels}

\* .update({quantity}).eq("id", existing.id): the row is identified by its id,
\* which under UNIQUE(product_id, warehouse_id) is the row of that pair.
update_quantity(levels, existing, q) ==
    {IF r.product_id = existing.product_id
        /\ r.warehouse_id = existing.warehouse_id
     THEN [r EXCEPT !.quantity = q] ELSE r : r \in levels}

\* (variant of a table without the UNIQUE constraint)
insert_level_unconstrained(levels, p, w, q) ==
    levels \cup {[product_id |-> p, warehouse_id |-> w, quantity |-> q]}

\* (variant that leaves the new row at the column default, quantity 0)
insert_level_default(levels, p, w, q) ==
    IF \E r \in levels : r.product_id = p /\ r.warehouse_id = w
    THEN levels
    ELSE levels \cup {[product_id |-> p, warehouse_id |-> w, quantity |-> 0]}

\* .from("stock_levels").insert({product_id, warehouse_id, quantity}): refused
\* by UNIQUE(product_id, warehouse_id) when the pair already has a row; the
\* handlers do not look at the returned error.
insert_level(levels, p, w, q) ==
    IF \E r \in levels : r.product_id = p /\ r.warehouse_id = w
    THEN levels
    ELSE levels \cup {[product_id |-> p, warehouse_id |-> w, quantity |-> q]}

\* one row of stock_movements as the handlers build it
movement(p, w, type, q, ref_type, ref_id) ==
    [product_id |-> p, warehouse_id |-> w, movement_type |-> type,
     quantity |-> q, reference_type |-> ref_type, reference_id |-> ref_id]

\* (variant that keeps only the row inserted last)
insert_movement_replacing(moves, m) == SetToBag({m})

\* .from("stock_movements").insert(row)
insert_movement(moves, m) == moves (+) SetToBag({m})

(* --------------------------- derived values ---------------------------- *)
\* the balance of a pair, 0 when the pair has no row
Balance(levels, p, w) ==
    LET r == single(levels, p, w) IN IF r = NoRow THEN 0 ELSE r.quantity

RECURSIVE SumSet(_, _)
SumSet(B, S) ==
    IF S = {} THEN 0
    ELSE LET m == CHOOSE x \in S : TRUE
         IN  m.quantity * B[m] + SumSet(B, S \ {m})

\* (for the properties) the signed sum of the ledger rows of a pair
LedgerSum(moves, p, w) ==
    SumSet(moves, {m \in BagToSet(moves) :
                     m.product_id = p /\ m.warehouse_id = w})

\* (for the properties) the number of ledger rows that reference a document
PostedRows(moves, ref_type, ref_id) ==
    LET S == {m \in BagToSet(moves) :
                m.reference_type = ref_type /\ m.reference_id = ref_id}
        RECURSIVE Count(_)
        Count(T) == IF T = {} THEN 0
                    ELSE LET m == CHOOSE x \in T : TRUE
                         IN  moves[m] + Count(T \ {m})
    IN  Count(S)

RECURSIVE LineSum(_, _)
\* (for the properties) the sum of the quantities of the lines of product p
LineSum(lines, p) ==
    IF lines = <<>> THEN 0
    ELSE (IF Head(lines).product_id = p THEN Head(lines).quantity ELSE 0)
         + LineSum(Tail(lines), p)

(* --------------------------- invocations ------------------------------- *)
\* An invocation holds the locals of one running validate handler: the
\* document it was called with, the fetched lines, the loop position, the
\* last stock_levels row read, and the notification it ended with.
\* For the properties the record also keeps `at`, the position of the first
\* request of the invocation that failed ("none" while none has), and
\* `notified`, the number of toasts the invocation has shown.
Idle == [pc |-> "idle", kind |-> "none", id |-> 0, lines |-> <<>>, idx |-> 0,
         existing |-> NoRow, toast |-> "none", at |-> "none", notified |-> 0]

\* toast.success(...) / toast.error(...): the toast shown last is kept
Notify(me, t) == [me EXCEPT !.toast = t, !.notified = @ + 1]

\* the handler shows a toast and returns: the document and the toast are kept
\* and, for the properties, the last row it read and `at`
Finished(me, t) ==
    [Idle EXCEPT !.kind = me.kind, !.id = me.id,
                 !.toast = Notify(me, t).toast,
                 !.notified = Notify(me, t).notified,
                 !.existing = me.existing, !.at = me.at]

FirstPc(k) == CASE k = "receipt" -> "r_lines"
                [] k = "delivery" -> "d_lines"
                [] k = "transfer" -> "t_src_read"
                [] k = "adjustment" -> "a_read"

Table(k) == CASE k = "receipt" -> receipts
              [] k = "delivery" -> deliveries
              [] k = "transfer" -> internal_transfers
              [] k = "adjustment" -> stock_adjustments

NumDocs == Len(receipts) + Len(deliveries) + Len(internal_transfers)
           + Len(stock_adjustments)

\* new Date().toISOString(): logical time advances with every click
Now == clicks

Draft == [status |-> "draft", validated_at |-> 0]

\* (variant that re-opens a document found "done")
DoneOrReopened(row) ==
    [row EXCEPT !.status = IF @ = "done" THEN "draft" ELSE "done",
                !.validated_at = Now]

Done(row) == [row EXCEPT !.status = "done", !.validated_at = Now]

\* reorder_level INTEGER DEFAULT 10
DefaultReorderLevel == 10

\* Dashboard: useState of stats, and loadDashboardData called on mount with
\* its first request (products) issued
DashboardInit == [pc |-> "products", allProducts |-> {}, lowStockCount |-> 0,
                  lowStockItems |-> 0]

\* Products: useState<Product[]>([]) and useState<StockLevel[]>([]), with the
\* loaders called on mount and their responses pending
ProductsPageInit == [products |-> {}, stockLevels |-> {},
                     pending |-> {"loadProducts", "loadStockLevels"}]

\* Transfers: nothing has been submitted in the Create Transfer dialog
NoNotice == [toast |-> "none", source |-> "", destination |-> ""]

\* the dialog's state and the quantity lookups in flight; for the properties
\* also `readFor`, the pair whose lookup set systemQty (<<>>: none has)
FormInit == [selectedProduct |-> "", selectedWarehouse |-> "", systemQty |-> 0,
             lookups |-> {}, readFor |-> <<>>]

Init ==
    /\ stock_levels = {}
    /\ stock_movements = EmptyBag
    /\ receipts = <<>>
    /\ receipt_lines = <<>>
    /\ deliveries = <<>>
    /\ delivery_lines = <<>>
    /\ internal_transfers = <<>>
    /\ stock_adjustments = <<>>
    /\ ui = [k \in Kinds |-> {}]
    /\ inv = [i \in Invocations |-> Idle]
    /\ form = FormInit
    /\ clicks = 0
    /\ pre = [levels |-> {}, moves |-> EmptyBag, status |-> "none",
              validated_at |-> 0, clicks |-> 0, rejected |-> {}]
    /\ products = [p \in Products |-> [reorder_level |-> DefaultReorderLevel]]
    /\ dashboard = DashboardInit
    /\ productsPage = ProductsPageInit
    /\ failures = 0
    /\ notice = NoNotice

(* ------------------------- the list of a page -------------------------- *)
\* loadReceipts / loadDeliveries / loadTransfers / loadAdjustments: the page's
\* list is replaced by the table's rows; the Validate button is rendered for
\* the rows whose status is not "done".  The handlers call the loader without
\* awaiting it and the page calls it on mount, so its response is a step of
\* its own.
Validatable(k) == {id \in 1 .. Len(Table(k)) : Table(k)[id].status # "done"}

Load(k) ==
    /\ ui' = [ui EXCEPT ![k] = Validatable(k)]
    /\ UNCHANGED <<stock_levels, stock_movements, docs, inv, form, clicks,
                   pre, pages, failures, notice>>

\* onClick={() => handleValidateX(x)}: the handler starts with the row of the
\* page's list and issues its first request.  Of that row the handlers use the
\* id, the warehouses, the product and the quantities, which no request ever
\* updates, so the steps below read them from the table.
Click(i, k, id) ==
    /\ inv[i].pc = "idle"
    /\ id \in ui[k]
    /\ clicks' = clicks + 1
    /\ inv' = [inv EXCEPT ![i] = [Idle EXCEPT !.pc = FirstPc(k), !.kind = k,
                                               !.id = id]]
    /\ UNCHANGED <<stock_levels, stock_movements, docs, ui, form, pages,
                   failures, notice>>

(* --------------------------- creation forms ---------------------------- *)
\* The rows of the product list of the Create Receipt / Create Delivery
\* dialog: a product (possibly not selected yet) and parseInt(value) || 0 of
\* a number input without a minimum.
FormRows(max) == UNION {[1 .. n -> [productId : Products \cup {""},
                                    quantity : -1 .. MaxQty]] : n \in 1 .. max}

\* (variant that keeps every row with a product, whatever its quantity)
form_lines_unfiltered(rows) ==
    LET kept == SelectSeq(rows, LAMBDA r : r.productId # "")
    IN  [n \in 1 .. Len(kept) |->
            [product_id |-> kept[n].productId, quantity |-> kept[n].quantity]]

\* selectedProducts.filter((p) => p.productId && p.quantity > 0).map(...)
form_lines(rows) ==
    LET kept == SelectSeq(rows, LAMBDA r : r.productId # "" /\ r.quantity > 0)
    IN  [n \in 1 .. Len(kept) |->
            [product_id |-> kept[n].productId, quantity |-> kept[n].quantity]]

\* Receipts handleSubmit: the header is inserted in "draft", then its lines
\* (none when the filter keeps none).  The two inserts are taken as one step:
\* a validation that runs between them finds a receipt without lines, which
\* is the case of a receipt created with no line.
CreateReceipt(w, rows) ==
    /\ receipts' = Append(receipts, Draft @@ [warehouse_id |-> w])
    /\ receipt_lines' = Append(receipt_lines, form_lines(rows))
    /\ UNCHANGED <<stock_levels, stock_movements, deliveries, delivery_lines,
                   internal_transfers, stock_adjustments, ui, inv, form,
                   clicks, pre, pages, failures, notice>>

\* Deliveries handleSubmit
CreateDelivery(w, rows) ==
    /\ deliveries' = Append(deliveries, Draft @@ [warehouse_id |-> w])
    /\ delivery_lines' = Append(delivery_lines, form_lines(rows))
    /\ UNCHANGED <<stock_levels, stock_movements, receipts, receipt_lines,
                   internal_transfers, stock_adjustments, ui, inv, form,
                   clicks, pre, pages, failures, notice>>

(* ----------------------- handleValidateReceipt ------------------------- *)
\* the current line of the loop
Line(me) == me.lines[me.idx]

\* (variant without the lines.length === 0 check: the loop runs over nothing)
ReceiptLinesUnchecked(i) ==
    LET me == inv[i]
        lines == receipt_lines[me.id]
    IN  /\ me.pc = "r_lines"
        /\ inv' = [inv EXCEPT ![i] =
                     IF Len(lines) = 0 THEN [me EXCEPT !.pc = "r_status"]
                     ELSE [me EXCEPT !.pc = "r_read", !.lines = lines,
                                     !.idx = 1]]
        /\ UNCHANGED <<stock_levels, stock_movements, docs, ui, form, clicks,
                       pre, pages, failures, notice>>

\* (variant that reports the missing lines and goes on instead of returning)
ReceiptLinesAnnounced(i) ==
    LET me == inv[i]
        lines == receipt_lines[me.id]
    IN  /\ me.pc = "r_lines"
        /\ inv' = [inv EXCEPT ![i] =
                     IF Len(lines) = 0
                     THEN [Notify(me, "error") EXCEPT !.pc = "r_status"]
                     ELSE [me EXCEPT !.pc = "r_read", !.lines = lines,
                                     !.idx = 1]]
        /\ UNCHANGED <<stock_levels, stock_movements, docs, ui, form, clicks,
                       pre, pages, failures, notice>>

\* select receipt_lines of the receipt; without lines the handler reports the
\* error and returns.
ReceiptLines(i) ==
    LET me == inv[i]
        lines == receipt_lines[me.id]
    IN  /\ me.pc = "r_lines"
        /\ inv' = [inv EXCEPT ![i] =
                     IF Len(lines) = 0 THEN Finished(me, "error")
                     ELSE [me EXCEPT !.pc = "r_read", !.lines = lines,
                                     !.idx = 1]]
        /\ UNCHANGED <<stock_levels, stock_movements, docs, ui, form, clicks,
                       pre, pages, failures, notice>>

\* select the stock level of (line.product_id, receipt.warehouse_id)
ReceiptRead(i) ==
    LET me == inv[i]
    IN  /\ me.pc = "r_read"
        /\ inv' = [inv EXCEPT ![i] =
                     [me EXCEPT !.pc = "r_write",
                                !.existing = single(stock_levels,
                                    Line(me).product_id,
                                    receipts[me.id].warehouse_id)]]
        /\ UNCHANGED <<stock_levels, stock_movements, docs, ui, form, clicks,
                       pre, pages, failures, notice>>

\* the quantity written for a receipt line over the row that was read
receipt_quantity_overwrite(existing, line) == line.quantity

receipt_quantity(existing, line) == existing.quantity + line.quantity

\* update the existing row, or insert a new one
ReceiptWrite(i) ==
    LET me == inv[i]
    IN  /\ me.pc = "r_write"
        /\ stock_levels' =
             IF me.existing # NoRow
             THEN update_quantity(stock_levels, me.existing,
                                  receipt_quantity(me.existing, Line(me)))
             ELSE insert_level(stock_levels, Line(me).product_id,
                               receipts[me.id].warehouse_id, Line(me).quantity)
        /\ inv' = [inv EXCEPT ![i] = [me EXCEPT !.pc = "r_move"]]
        /\ UNCHANGED <<stock_movements, docs, ui, form, clicks, pre, pages,
                       failures, notice>>

\* (variant that goes on with the status update after any line)
ReceiptMoveThenStatus(i) ==
    LET me == inv[i]
    IN  /\ me.pc = "r_move"
        /\ stock_movements' = insert_movement(stock_movements,
             movement(Line(me).product_id, receipts[me.id].warehouse_id,
                      "receipt", Line(me).quantity, "receipt", me.id))
        /\ inv' = [inv EXCEPT ![i] = [me EXCEPT !.pc = "r_status"]]
        /\ UNCHANGED <<stock_levels, docs, ui, form, clicks, pre, pages,
                       failures, notice>>

\* insert the "receipt" movement of the line, then go on with the next line
\* or with the status update
ReceiptMove(i) ==
    LET me == inv[i]
    IN  /\ me.pc = "r_move"
        /\ stock_movements' = insert_movement(stock_movements,
             movement(Line(me).product_id, receipts[me.id].warehouse_id,
                      "receipt", Line(me).quantity, "receipt", me.id))
        /\ inv' = [inv EXCEPT ![i] =
                     IF me.idx < Len(me.lines)
                     THEN [me EXCEPT !.pc = "r_read", !.idx = me.idx + 1,
                                     !.existing = NoRow]
                     ELSE [me EXCEPT !.pc = "r_status"]]
        /\ UNCHANGED <<stock_levels, docs, ui, form, clicks, pre, pages,
                       failures, notice>>

\* update the receipt to "done", report success
ReceiptStatus(i) ==
    LET me == inv[i]
    IN  /\ me.pc = "r_status"
        /\ receipts' = [receipts EXCEPT ![me.id] = Done(receipts[me.id])]
        /\ inv' = [inv EXCEPT ![i] = Finished(me, "success")]
        /\ UNCHANGED <<stock_levels, stock_movements, receipt_lines,
                       deliveries, delivery_lines, internal_transfers,
                       stock_adjustments, ui, form, clicks, pre, pages,
                       failures, notice>>

(* ----------------------- handleValidateDelivery ------------------------ *)
DeliveryLines(i) ==
    LET me == inv[i]
        lines == delivery_lines[me.id]
    IN  /\ me.pc = "d_lines"
        /\ inv' = [inv EXCEPT ![i] =
                     IF Len(lines) = 0 THEN Finished(me, "error")
                     ELSE [me EXCEPT !.pc = "d_read", !.lines = lines,
                                     !.idx = 1]]
        /\ UNCHANGED <<stock_levels, stock_movements, docs, ui, form, clicks,
                       pre, pages, failures, notice>>

\* !existing || Number(existing.quantity) < Number(line.quantity)
insufficient_missing_only(existing, q) == existing = NoRow

insufficient(existing, q) == existing = NoRow \/ existing.quantity < q

\* (variant that checks every line against the balances found at the click)
DeliveryReadAtClick(i) ==
    LET me == inv[i]
        existing == single(pre.levels, Line(me).product_id,
                           deliveries[me.id].warehouse_id)
    IN  /\ me.pc = "d_read"
        /\ inv' = [inv EXCEPT ![i] =
                     IF insufficient(existing, Line(me).quantity)
                     THEN Finished(me, "error")
                     ELSE [me EXCEPT !.pc = "d_write", !.existing = existing]]
        /\ UNCHANGED <<stock_levels, stock_movements, docs, ui, form, clicks,
                       pre, pages, failures, notice>>

\* select the stock level of the line; with insufficient stock the handler
\* reports the error and returns
DeliveryRead(i) ==
    LET me == inv[i]
        existing == single(stock_levels, Line(me).product_id,
                           deliveries[me.id].warehouse_id)
    IN  /\ me.pc = "d_read"
        /\ inv' = [inv EXCEPT ![i] =
                     IF insufficient(existing, Line(me).quantity)
                     THEN Finished(me, "error")
                     ELSE [me EXCEPT !.pc = "d_write", !.existing = existing]]
        /\ UNCHANGED <<stock_levels, stock_movements, docs, ui, form, clicks,
                       pre, pages, failures, notice>>

DeliveryWrite(i) ==
    LET me == inv[i]
    IN  /\ me.pc = "d_write"
        /\ stock_levels' = update_quantity(stock_levels, me.existing,
                             me.existing.quantity - Line(me).quantity)
        /\ inv' = [inv EXCEPT ![i] = [me EXCEPT !.pc = "d_move"]]
        /\ UNCHANGED <<stock_movements, docs, ui, form, clicks, pre, pages,
                       failures, notice>>

DeliveryMove(i) ==
    LET me == inv[i]
    IN  /\ me.pc = "d_move"
        /\ stock_movements' = insert_movement(stock_movements,
             movement(Line(me).product_id, deliveries[me.id].warehouse_id,
                      "delivery", 0 - Line(me).quantity, "delivery", me.id))
        /\ inv' = [inv EXCEPT ![i] =
                     IF me.idx < Len(me.lines)
                     THEN [me EXCEPT !.pc = "d_read", !.idx = me.idx + 1,
                                     !.existing = NoRow]
                     ELSE [me EXCEPT !.pc = "d_status"]]
        /\ UNCHANGED <<stock_levels, docs, ui, form, clicks, pre, pages,
                       failures, notice>>

DeliveryStatus(i) ==
    LET me == inv[i]
    IN  /\ me.pc = "d_status"
        /\ deliveries' = [deliveries EXCEPT ![me.id] = Done(deliveries[me.id])]
        /\ inv' = [inv EXCEPT ![i] = Finished(me, "success")]
        /\ UNCHANGED <<stock_levels, stock_movements, receipts, receipt_lines,
                       delivery_lines, internal_transfers, stock_adjustments,
                       ui, form, clicks, pre, pages, failures, notice>>

(* ------------------------------ transfers ------------------------------ *)
\* Transfers handleSubmit: equal warehouses are refused before any request;
\* quantity is parseInt of an input with min="1".
CreateTransfer(src, dst, p, q) ==
    /\ src # dst
    /\ internal_transfers' = Append(internal_transfers,
         Draft @@ [source_warehouse_id |-> src,
                   destination_warehouse_id |-> dst,
                   product_id |-> p, quantity |-> q])
    /\ UNCHANGED <<stock_levels, stock_movements, receipts, receipt_lines,
                   deliveries, delivery_lines, stock_adjustments, ui, inv,
                   form, clicks, pre, pages, failures, notice>>

\* (variant without the comparison of the two warehouses)
SubmitTransferUnchecked(src, dst, p, q) ==
    /\ internal_transfers' = Append(internal_transfers,
         Draft @@ [source_warehouse_id |-> src,
                   destination_warehouse_id |-> dst,
                   product_id |-> p, quantity |-> q])
    /\ notice' = [toast |-> "success", source |-> src, destination |-> dst]
    /\ UNCHANGED <<stock_levels, stock_movements, receipts, receipt_lines,
                   deliveries, delivery_lines, stock_adjustments, ui, inv,
                   form, clicks, pre, pages, failures>>

\* Transfers handleSubmit with any two warehouses selected: equal ones are
\* answered with the error toast and nothing is inserted, otherwise the row
\* is inserted in "draft" and the success toast shown.
SubmitTransfer(src, dst, p, q) ==
    /\ IF src = dst
       THEN /\ notice' = [toast |-> "error", source |-> src,
                          destination |-> dst]
            /\ UNCHANGED internal_transfers
       ELSE /\ internal_transfers' = Append(internal_transfers,
                 Draft @@ [source_warehouse_id |-> src,
                           destination_warehouse_id |-> dst,
                           product_id |-> p, quantity |-> q])
            /\ notice' = [toast |-> "success", source |-> src,
                          destination |-> dst]
    /\ UNCHANGED <<stock_levels, stock_movements, receipts, receipt_lines,
                   deliveries, delivery_lines, stock_adjustments, ui, inv,
                   form, clicks, pre, pages, failures>>

Transfer(me) == internal_transfers[me.id]

\* select the source stock level; with insufficient stock the handler reports
\* the error and returns
TransferSourceRead(i) ==
    LET me == inv[i]
        sourceStock == single(stock_levels, Transfer(me).product_id,
                              Transfer(me).source_warehouse_id)
    IN  /\ me.pc = "t_src_read"
        /\ inv' = [inv EXCEPT ![i] =
                     IF insufficient(sourceStock, Transfer(me).quantity)
                     THEN Finished(me, "error")
                     ELSE [me EXCEPT !.pc = "t_src_write",
                                     !.existing = sourceStock]]
        /\ UNCHANGED <<stock_levels, stock_movements, docs, ui, form, clicks,
                       pre, pages, failures, notice>>

\* reduce the source stock
TransferSourceWrite(i) ==
    LET me == inv[i]
    IN  /\ me.pc = "t_src_write"
        /\ stock_levels' = update_quantity(stock_levels, me.existing,
                             me.existing.quantity - Transfer(me).quantity)
        /\ inv' = [inv EXCEPT ![i] = [me EXCEPT !.pc = "t_dst_read",
                                                !.existing = NoRow]]
        /\ UNCHANGED <<stock_movements, docs, ui, form, clicks, pre, pages,
                       failures, notice>>

\* select the destination stock level
TransferDestRead(i) ==
    LET me == inv[i]
    IN  /\ me.pc = "t_dst_read"
        /\ inv' = [inv EXCEPT ![i] =
                     [me EXCEPT !.pc = "t_dst_write",
                                !.existing = single(stock_levels,
                                    Transfer(me).product_id,
                                    Transfer(me).destination_warehouse_id)]]
        /\ UNCHANGED <<stock_levels, stock_movements, docs, ui, form, clicks,
                       pre, pages, failures, notice>>

\* increase the destination stock, or insert its row
TransferDestWrite(i) ==
    LET me == inv[i]
    IN  /\ me.pc = "t_dst_write"
        /\ stock_levels' =
             IF me.existing # NoRow
             THEN update_quantity(stock_levels, me.existing,
                    me.existing.quantity + Transfer(me).quantity)
             ELSE insert_level(stock_levels, Transfer(me).product_id,
                    Transfer(me).destination_warehouse_id,
                    Transfer(me).quantity)
        /\ inv' = [inv EXCEPT ![i] = [me EXCEPT !.pc = "t_moves",
                                                !.existing = NoRow]]
        /\ UNCHANGED <<stock_movements, docs, ui, form, clicks, pre, pages,
                       failures, notice>>

\* the two rows of the transfer's single movement insert
transfer_movements_unsigned(t, id) ==
    SetToBag({movement(t.product_id, t.source_warehouse_id, "transfer_out",
                       t.quantity, "transfer", id)})
    (+) SetToBag({movement(t.product_id, t.destination_warehouse_id,
                           "transfer_in", t.quantity, "transfer", id)})

transfer_movements(t, id) ==
    SetToBag({movement(t.product_id, t.source_warehouse_id, "transfer_out",
                       0 - t.quantity, "transfer", id)})
    (+) SetToBag({movement(t.product_id, t.destination_warehouse_id,
                           "transfer_in", t.quantity, "transfer", id)})

\* insert the transfer_out and transfer_in movements in one request
TransferMoves(i) ==
    LET me == inv[i]
    IN  /\ me.pc = "t_moves"
        /\ stock_movements' = stock_movements
                              (+) transfer_movements(Transfer(me), me.id)
        /\ inv' = [inv EXCEPT ![i] = [me EXCEPT !.pc = "t_status"]]
        /\ UNCHANGED <<stock_levels, docs, ui, form, clicks, pre, pages,
                       failures, notice>>

TransferStatus(i) ==
    LET me == inv[i]
    IN  /\ me.pc = "t_status"
        /\ internal_transfers' =
             [internal_transfers EXCEPT ![me.id] = Done(Transfer(me))]
        /\ inv' = [inv EXCEPT ![i] = Finished(me, "success")]
        /\ UNCHANGED <<stock_levels, stock_movements, receipts, receipt_lines,
                       deliveries, delivery_lines, stock_adjustments, ui,
                       form, clicks, pre, pages, failures, notice>>

(* ----------------------------- adjustments ----------------------------- *)
\* useEffect on [selectedProduct, selectedWarehouse]: with both selected a
\* quantity lookup for the pair is issued
with_lookup(f) ==
    IF f.selectedProduct # "" /\ f.selectedWarehouse # ""
    THEN [f EXCEPT !.lookups =
             @ \cup {<<f.selectedProduct, f.selectedWarehouse>>}]
    ELSE f

\* onValueChange={setSelectedProduct}
setSelectedProduct(f, p) == with_lookup([f EXCEPT !.selectedProduct = p])

\* onValueChange={setSelectedWarehouse}
setSelectedWarehouse(f, w) == with_lookup([f EXCEPT !.selectedWarehouse = w])

\* (variant in which the response never sets systemQty)
loadSystemQuantity_unanswered(f, levels, pair) ==
    [f EXCEPT !.lookups = @ \ {pair}]

\* loadSystemQuantity's response: setSystemQty(data ? Number(data.quantity) : 0)
loadSystemQuantity(f, levels, pair) ==
    [f EXCEPT !.systemQty = Balance(levels, pair[1], pair[2]),
              !.lookups = @ \ {pair}, !.readFor = pair]

\* the difference stored with a new adjustment
difference_reversed(countedQty, systemQty) == systemQty - countedQty

difference(countedQty, systemQty) == countedQty - systemQty

\* Adjustments handleSubmit: the row inserted from the dialog's state
adjustment_row(f, countedQty) ==
    Draft @@ [product_id |-> f.selectedProduct,
              warehouse_id |-> f.selectedWarehouse,
              counted_quantity |-> countedQty,
              system_quantity |-> f.systemQty,
              difference |-> difference(countedQty, f.systemQty)]

\* ... and the dialog's state after a successful insert
form_reset(f) == [f EXCEPT !.selectedProduct = "", !.selectedWarehouse = "",
                           !.systemQty = 0, !.readFor = <<>>]

\* A user fills the dialog and submits it: product, warehouse, the lookup's
\* response, then the submit, with no other event in between.
CreateAdjustment(p, w, countedQty) ==
    LET f1 == setSelectedProduct(form, p)
        f2 == setSelectedWarehouse(f1, w)
        f3 == loadSystemQuantity(f2, stock_levels, <<p, w>>)
    IN  /\ form = FormInit
        /\ stock_adjustments' = Append(stock_adjustments,
                                       adjustment_row(f3, countedQty))
        /\ form' = form_reset(f3)
        /\ UNCHANGED <<stock_levels, stock_movements, receipts, receipt_lines,
                       deliveries, delivery_lines, internal_transfers, ui,
                       inv, clicks, pre, pages, failures, notice>>

\* The same dialog event by event: the two selects, the response of a lookup
\* in flight (in any order), and the submit, which needs both selects filled.
SelectProduct(p) ==
    /\ form' = setSelectedProduct(form, p)
    /\ UNCHANGED <<stock_levels, stock_movements, docs, ui, inv, clicks, pre,
                   pages, failures, notice>>

SelectWarehouse(w) ==
    /\ form' = setSelectedWarehouse(form, w)
    /\ UNCHANGED <<stock_levels, stock_movements, docs, ui, inv, clicks, pre,
                   pages, failures, notice>>

LookupResponse(pair) ==
    /\ pair \in form.lookups
    /\ form' = loadSystemQuantity(form, stock_levels, pair)
    /\ UNCHANGED <<stock_levels, stock_movements, docs, ui, inv, clicks, pre,
                   pages, failures, notice>>

SubmitAdjustment(countedQty) ==
    /\ form.selectedProduct # ""
    /\ form.selectedWarehouse # ""
    /\ stock_adjustments' = Append(stock_adjustments,
                                   adjustment_row(form, countedQty))
    /\ form' = form_reset(form)
    /\ UNCHANGED <<stock_levels, stock_movements, receipts, receipt_lines,
                   deliveries, delivery_lines, internal_transfers, ui, inv,
                   clicks, pre, pages, failures, notice>>

Adjustment(me) == stock_adjustments[me.id]

\* select the stock level of the adjustment's pair
AdjustmentRead(i) ==
    LET me == inv[i]
    IN  /\ me.pc = "a_read"
        /\ inv' = [inv EXCEPT ![i] =
                     [me EXCEPT !.pc = "a_write",
                                !.existing = single(stock_levels,
                                    Adjustment(me).product_id,
                                    Adjustment(me).warehouse_id)]]
        /\ UNCHANGED <<stock_levels, stock_movements, docs, ui, form, clicks,
                       pre, pages, failures, notice>>

\* set the row to the counted quantity, or insert it
AdjustmentWrite(i) ==
    LET me == inv[i]
    IN  /\ me.pc = "a_write"
        /\ stock_levels' =
             IF me.existing # NoRow
             THEN update_quantity(stock_levels, me.existing,
                                  Adjustment(me).counted_quantity)
             ELSE insert_level(stock_levels, Adjustment(me).product_id,
                               Adjustment(me).warehouse_id,
                               Adjustment(me).counted_quantity)
        /\ inv' = [inv EXCEPT ![i] = [me EXCEPT !.pc = "a_move",
                                                !.existing = NoRow]]
        /\ UNCHANGED <<stock_movements, docs, ui, form, clicks, pre, pages,
                       failures, notice>>

\* insert the "adjustment" movement with the stored difference
AdjustmentMove(i) ==
    LET me == inv[i]
    IN  /\ me.pc = "a_move"
        /\ stock_movements' = insert_movement(stock_movements,
             movement(Adjustment(me).product_id, Adjustment(me).warehouse_id,
                      "adjustment", Adjustment(me).difference, "adjustment",
                      me.id))
        /\ inv' = [inv EXCEPT ![i] = [me EXCEPT !.pc = "a_status"]]
        /\ UNCHANGED <<stock_levels, docs, ui, form, clicks, pre, pages,
                       failures, notice>>

AdjustmentStatus(i) ==
    LET me == inv[i]
    IN  /\ me.pc = "a_status"
        /\ stock_adjustments' =
             [stock_adjustments EXCEPT ![me.id] = Done(Adjustment(me))]
        /\ inv' = [inv EXCEPT ![i] = Finished(me, "success")]
        /\ UNCHANGED <<stock_levels, stock_movements, receipts, receipt_lines,
                       deliveries, delivery_lines, internal_transfers, ui,
                       form, clicks, pre, pages, failures, notice>>

(* ------------------------------ low stock ------------------------------ *)
\* .from("products").select(...): the rows with their id and reorder_level
select_products(table) ==
    {[id |-> p, reorder_level |-> table[p].reorder_level] : p \in DOMAIN table}

\* stockMap.get(id) || 0
get_or_zero(stockMap, id) == IF id \in DOMAIN stockMap THEN stockMap[id] ELSE 0

RECURSIVE stockMapOf(_, _)
\* allStockLevels.forEach(sl => stockMap.set(sl.product_id,
\*     (stockMap.get(sl.product_id) || 0) + Number(sl.quantity)))
stockMapOf(allStockLevels, stockMap) ==
    IF allStockLevels = {} THEN stockMap
    ELSE LET sl == CHOOSE r \in allStockLevels : TRUE
         IN  stockMapOf(allStockLevels \ {sl},
                        (sl.product_id :>
                           (get_or_zero(stockMap, sl.product_id) + sl.quantity))
                        @@ stockMap)

\* for (const product of allProducts)
\*     if (totalStock <= product.reorder_level) lowStockCount += 1
lowStockCount(allProducts, stockMap) ==
    Cardinality({product \in allProducts :
                   get_or_zero(stockMap, product.id) <= product.reorder_level})

RECURSIVE sum_quantity(_)
\* stock.reduce((sum, sl) => sum + Number(sl.quantity), 0)
sum_quantity(stock) ==
    IF stock = {} THEN 0
    ELSE LET sl == CHOOSE r \in stock : TRUE
         IN  sl.quantity + sum_quantity(stock \ {sl})

\* Products getProductStock
getProductStock(stockLevels, productId) ==
    sum_quantity({sl \in stockLevels : sl.product_id = productId})

\* (variant that compares with <)
isLowStock_below(currentStock, reorder_level) == currentStock < reorder_level

\* const isLowStock = currentStock <= product.reorder_level
isLowStock(currentStock, reorder_level) == currentStock <= reorder_level

\* the rows of the Products table that carry the "Low Stock" badge (with an
\* empty search box, which lists every product)
LowStockMarked(page) ==
    {product \in page.products :
        isLowStock(getProductStock(page.stockLevels, product.id),
                   product.reorder_level)}

\* loadDashboardData: the response of the products request
DashboardProducts ==
    /\ dashboard.pc = "products"
    /\ dashboard' = [dashboard EXCEPT !.pc = "stock_levels",
                                      !.allProducts = select_products(products)]
    /\ UNCHANGED <<stock_levels, stock_movements, docs, ui, inv, form, clicks,
                   pre, products, productsPage, failures, notice>>

\* ... the response of the stock_levels request, and the count made from it
DashboardStockLevels ==
    /\ dashboard.pc = "stock_levels"
    /\ dashboard' =
         [dashboard EXCEPT !.pc = "counts",
                           !.lowStockCount =
                              lowStockCount(dashboard.allProducts,
                                  stockMapOf(stock_levels, [x \in {} |-> 0]))]
    /\ UNCHANGED <<stock_levels, stock_movements, docs, ui, inv, form, clicks,
                   pre, products, productsPage, failures, notice>>

\* ... the three counts of pending documents, then setStats
DashboardCounts ==
    /\ dashboard.pc = "counts"
    /\ dashboard' = [dashboard EXCEPT !.pc = "loaded",
                                      !.lowStockItems = dashboard.lowStockCount]
    /\ UNCHANGED <<stock_levels, stock_movements, docs, ui, inv, form, clicks,
                   pre, products, productsPage, failures, notice>>

\* Products loadProducts: setProducts(data || [])
ProductsLoadProducts ==
    /\ "loadProducts" \in productsPage.pending
    /\ productsPage' = [productsPage EXCEPT
                          !.products = select_products(products),
                          !.pending = @ \ {"loadProducts"}]
    /\ UNCHANGED <<stock_levels, stock_movements, docs, ui, inv, form, clicks,
                   pre, products, dashboard, failures, notice>>

\* Products loadStockLevels: setStockLevels(data || [])
ProductsLoadStockLevels ==
    /\ "loadStockLevels" \in productsPage.pending
    /\ productsPage' = [productsPage EXCEPT
                          !.stockLevels = stock_levels,
                          !.pending = @ \ {"loadStockLevels"}]
    /\ UNCHANGED <<stock_levels, stock_movements, docs, ui, inv, form, clicks,
                   pre, products, dashboard, failures, notice>>

(* -------------------------- failing requests --------------------------- *)
\* the invocation with the position of its first failed request noted
Marked(me) == [me EXCEPT !.at = IF @ = "none" THEN me.pc ELSE @]

\* The handler's continuation when the awaited request resolves with
\* { data: null, error }: nothing was read or written, the handlers do not
\* look at error and go on with data = null.
after_error(me) ==
    LET next_line(read, status) ==
            IF me.idx < Len(me.lines)
            THEN [me EXCEPT !.pc = read, !.idx = me.idx + 1,
                            !.existing = NoRow]
            ELSE [me EXCEPT !.pc = status]
    IN  CASE me.pc \in {"r_lines", "d_lines"} -> Finished(me, "error")
          [] me.pc = "r_read" -> [me EXCEPT !.pc = "r_write",
                                            !.existing = NoRow]
          [] me.pc = "r_write" -> [me EXCEPT !.pc = "r_move"]
          [] me.pc = "r_move" -> next_line("r_read", "r_status")
          [] me.pc \in {"d_read", "t_src_read"} -> Finished(me, "error")
          [] me.pc = "d_write" -> [me EXCEPT !.pc = "d_move"]
          [] me.pc = "d_move" -> next_line("d_read", "d_status")
          [] me.pc = "t_src_write" -> [me EXCEPT !.pc = "t_dst_read",
                                                 !.existing = NoRow]
          [] me.pc = "t_dst_read" -> [me EXCEPT !.pc = "t_dst_write",
                                                !.existing = NoRow]
          [] me.pc = "t_dst_write" -> [me EXCEPT !.pc = "t_moves",
                                                 !.existing = NoRow]
          [] me.pc = "t_moves" -> [me EXCEPT !.pc = "t_status"]
          [] me.pc = "a_read" -> [me EXCEPT !.pc = "a_write",
                                            !.existing = NoRow]
          [] me.pc = "a_write" -> [me EXCEPT !.pc = "a_move",
                                             !.existing = NoRow]
          [] me.pc = "a_move" -> [me EXCEPT !.pc = "a_status"]
          [] me.pc \in {"r_status", "d_status", "t_status", "a_status"} ->
                Finished(me, "success")

\* the pending request of the invocation resolves with an error
RequestErrs(i) ==
    /\ inv[i].pc # "idle"
    /\ failures < MaxFailures
    /\ failures' = failures + 1
    /\ inv' = [inv EXCEPT ![i] = after_error(Marked(inv[i]))]
    /\ UNCHANGED <<stock_levels, stock_movements, docs, ui, form, clicks, pre,
                   pages, notice>>

\* (variant whose catch block writes the balances back as they were)
RequestThrowsRestoring(i) ==
    /\ inv[i].pc # "idle"
    /\ failures < MaxFailures
    /\ failures' = failures + 1
    /\ inv' = [inv EXCEPT ![i] = Finished(Marked(inv[i]), "failed")]
    /\ stock_levels' = pre.levels
    /\ UNCHANGED <<stock_movements, docs, ui, form, clicks, pre, pages,
                   notice>>

\* the pending request of the invocation rejects: catch (error) reports
\* error.message || "Failed to validate ..." and issues no request
RequestThrows(i) ==
    /\ inv[i].pc # "idle"
    /\ failures < MaxFailures
    /\ failures' = failures + 1
    /\ inv' = [inv EXCEPT ![i] = Finished(Marked(inv[i]), "failed")]
    /\ UNCHANGED <<stock_levels, stock_movements, docs, ui, form, clicks, pre,
                   pages, notice>>

(* ------------------------- canceled documents -------------------------- *)
\* status ... CHECK (status IN ('draft', 'waiting', 'ready', 'done',
\* 'canceled')) with FOR UPDATE USING (auth.uid() IS NOT NULL): the store lets
\* a signed-in client set a receipt, delivery or transfer to "canceled".  No
\* page of the application issues this update; the lists show such a row with
\* its Validate button (status !== "done").
CancelDocument(k, id) ==
    /\ id \in 1 .. Len(Table(k))
    /\ Table(k)[id].status = "draft"
    /\ CASE k = "receipt" ->
              /\ receipts' = [receipts EXCEPT ![id].status = "canceled"]
              /\ UNCHANGED <<deliveries, internal_transfers>>
         [] k = "delivery" ->
              /\ deliveries' = [deliveries EXCEPT ![id].status = "canceled"]
              /\ UNCHANGED <<receipts, internal_transfers>>
         [] k = "transfer" ->
              /\ internal_transfers' =
                   [internal_transfers EXCEPT ![id].status = "canceled"]
              /\ UNCHANGED <<receipts, deliveries>>
    /\ UNCHANGED <<stock_levels, stock_movements, receipt_lines,
                   delivery_lines, stock_adjustments, ui, inv, form, clicks,
                   pre, pages, failures, notice>>

(* --------------------------- specifications ---------------------------- *)
\* the dialogs of the four pages, while fewer than MaxDocs documents exist
MayCreate == NumDocs < MaxDocs

Create(max) ==
    \/ \E w \in Warehouses, rows \in FormRows(max) :
          MayCreate /\ CreateReceipt(w, rows)
    \/ \E w \in Warehouses, rows \in FormRows(max) :
          MayCreate /\ CreateDelivery(w, rows)
    \/ \E src \in Warehouses, dst \in Warehouses, p \in Products,
          q \in Quantities : MayCreate /\ CreateTransfer(src, dst, p, q)
    \/ \E p \in Products, w \in Warehouses, c \in CountedQuantities :
          MayCreate /\ CreateAdjustment(p, w, c)

Step(i) ==
    \/ ReceiptLines(i) \/ ReceiptRead(i) \/ ReceiptWrite(i)
    \/ ReceiptMove(i) \/ ReceiptStatus(i)
    \/ DeliveryLines(i) \/ DeliveryRead(i) \/ DeliveryWrite(i)
    \/ DeliveryMove(i) \/ DeliveryStatus(i)
    \/ TransferSourceRead(i) \/ TransferSourceWrite(i) \/ TransferDestRead(i)
    \/ TransferDestWrite(i) \/ TransferMoves(i) \/ TransferStatus(i)
    \/ AdjustmentRead(i) \/ AdjustmentWrite(i) \/ AdjustmentMove(i)
    \/ AdjustmentStatus(i)

\* History kept for the properties: what the store and the document looked
\* like when the click was made.
Snapshot(k, id) == [levels |-> stock_levels, moves |-> stock_movements,
                    status |-> Table(k)[id].status,
                    validated_at |-> Table(k)[id].validated_at,
                    clicks |-> clicks, rejected |-> pre.rejected]

\* Validations one at a time: a click is made only while no handler runs.
ClickAlone(k, id) ==
    /\ \A j \in Invocations : inv[j].pc = "idle"
    /\ clicks < MaxClicks
    /\ Click(1, k, id)
    /\ pre' = Snapshot(k, id)

NextSeq ==
    \/ Create(MaxLines)
    \/ \E k \in Kinds : Load(k)
    \/ \E k \in Kinds, id \in 1 .. MaxDocs : ClickAlone(k, id)
    \/ Step(1)

SpecSeq == Init /\ [][NextSeq]_vars

\* Overlapping validations: a second click while a handler is running.  The
\* first free invocation record is used.
ClickAny(i, k, id) ==
    /\ \A j \in Invocations : j < i => inv[j].pc # "idle"
    /\ clicks < MaxClicks
    /\ Click(i, k, id)
    /\ UNCHANGED pre

Next ==
    \/ Create(MaxLinesOverlap)
    \/ \E k \in Kinds : Load(k)
    \/ \E i \in Invocations, k \in Kinds, id \in 1 .. MaxDocs :
          ClickAny(i, k, id)
    \/ \E i \in Invocations : Step(i)

Spec == Init /\ [][Next]_vars

\* Validations one at a time whose store requests may fail.
NextFail ==
    \/ Create(MaxLinesOverlap)
    \/ \E k \in Kinds : Load(k)
    \/ \E k \in Kinds, id \in 1 .. MaxDocs : ClickAlone(k, id)
    \/ Step(1)
    \/ RequestErrs(1)
    \/ RequestThrows(1)

SpecFail == Init /\ [][NextFail]_vars

\* the stores that hold at most one row per pair
Pairs == Products \X Warehouses

StockQuantities == -1 .. MaxQty

ReorderLevels == -1 .. MaxQty + 1

LevelSets ==
    UNION {{{[product_id |-> pw[1], warehouse_id |-> pw[2],
              quantity |-> q[pw]] : pw \in S} : q \in [S -> StockQuantities]} :
           S \in SUBSET Pairs}

\* The Create Stock Adjustment dialog used over a store that holds any
\* balances of the products at one warehouse.
InitForm ==
    /\ stock_levels \in {ls \in LevelSets :
                            \A r \in ls : /\ r.warehouse_id = RaceWarehouse
                                          /\ r.quantity >= 0}
    /\ products = [p \in Products |-> [reorder_level |-> DefaultReorderLevel]]
    /\ stock_movements = EmptyBag
    /\ receipts = <<>>
    /\ receipt_lines = <<>>
    /\ deliveries = <<>>
    /\ delivery_lines = <<>>
    /\ internal_transfers = <<>>
    /\ stock_adjustments = <<>>
    /\ ui = [k \in Kinds |-> {}]
    /\ inv = [i \in Invocations |-> Idle]
    /\ form = FormInit
    /\ clicks = 0
    /\ pre = [levels |-> {}, moves |-> EmptyBag, status |-> "none",
              validated_at |-> 0, clicks |-> 0, rejected |-> {}]
    /\ dashboard = DashboardInit
    /\ productsPage = ProductsPageInit
    /\ failures = 0
    /\ notice = NoNotice

NextForm ==
    \/ \E p \in Products : SelectProduct(p)
    \/ \E w \in Warehouses : SelectWarehouse(w)
    \/ \E pair \in Pairs : LookupResponse(pair)
    \/ \E c \in CountedQuantities :
          Len(stock_adjustments) < MaxFormDocs /\ SubmitAdjustment(c)

SpecForm == InitForm /\ [][NextForm]_vars

\* Receipts and transfers, the Create Transfer dialog submitted with any two
\* warehouses, validations one at a time.
NextTransfers ==
    \/ \E w \in Warehouses, rows \in FormRows(MaxLinesOverlap) :
          MayCreate /\ CreateReceipt(w, rows)
    \/ \E src \in Warehouses, dst \in Warehouses, p \in Products,
          q \in Quantities : MayCreate /\ SubmitTransfer(src, dst, p, q)
    \/ \E k \in {"receipt", "transfer"} : Load(k)
    \/ \E k \in {"receipt", "transfer"}, id \in 1 .. MaxDocs :
          ClickAlone(k, id)
    \/ ReceiptLines(1) \/ ReceiptRead(1) \/ ReceiptWrite(1)
    \/ ReceiptMove(1) \/ ReceiptStatus(1)
    \/ TransferSourceRead(1) \/ TransferSourceWrite(1)
    \/ TransferDestRead(1) \/ TransferDestWrite(1) \/ TransferMoves(1)
    \/ TransferStatus(1)

SpecTransfers == Init /\ [][NextTransfers]_vars

\* Validations one at a time over documents that may have been canceled.
NextCancel ==
    \/ Create(MaxLinesOverlap)
    \/ \E k \in Kinds : Load(k)
    \/ \E k \in Kinds, id \in 1 .. MaxDocs : ClickAlone(k, id)
    \/ Step(1)
    \/ \E k \in {"receipt", "delivery", "transfer"}, id \in 1 .. MaxDocs :
          CancelDocument(k, id)

SpecCancel == Init /\ [][NextCancel]_vars

\* The pending request of a running handler is answered: with its result,
\* with an error, or by rejecting.
Answered(i) == Step(i) \/ RequestErrs(i) \/ RequestThrows(i)

\* ... and every store request eventually returns.
SpecAnswered == SpecFail /\ WF_vars(Answered(1))

\* One user works through a receipt, a delivery, a transfer and an adjustment
\* of one product, validating each once and in this order; the quantities
\* typed in are those of Scenario.  The delivery and the transfer may be
\* created any time after the receipt, the adjustment after the transfer has
\* been validated.
Scenario == [received |-> 10, delivered |-> 4, transferred |-> 6,
             counted |-> 2]

ScenarioProduct == receipt_lines[1][1].product_id

ScenarioOrder == <<"receipt", "delivery", "transfer", "adjustment">>

ScenarioCreate ==
    \/ \E p \in Products :
          /\ Len(receipts) = 0
          /\ CreateReceipt("WH-MAIN", <<[productId |-> p,
                                         quantity |-> Scenario.received]>>)
    \/ /\ Len(receipts) = 1
       /\ Len(deliveries) = 0
       /\ CreateDelivery("WH-MAIN", <<[productId |-> ScenarioProduct,
                                       quantity |-> Scenario.delivered]>>)
    \/ /\ Len(receipts) = 1
       /\ Len(internal_transfers) = 0
       /\ CreateTransfer("WH-MAIN", "WH-SEC", ScenarioProduct,
                         Scenario.transferred)
    \/ /\ Len(internal_transfers) = 1
       /\ internal_transfers[1].status = "done"
       /\ inv[1].pc = "idle"
       /\ Len(stock_adjustments) = 0
       /\ CreateAdjustment(ScenarioProduct, "WH-SEC", Scenario.counted)

ScenarioClick(n) ==
    /\ clicks = n - 1
    /\ \A j \in Invocations : inv[j].pc = "idle"
    /\ Click(1, ScenarioOrder[n], 1)
    /\ pre' = Snapshot(ScenarioOrder[n], 1)

NextScenario ==
    \/ ScenarioCreate
    \/ \E k \in Kinds : Load(k)
    \/ \E n \in 1 .. Len(ScenarioOrder) : ScenarioClick(n)
    \/ Step(1)

SpecScenario == Init /\ [][NextScenario]_vars

\* Two users validate receipts and deliveries of one product at one
\* warehouse: a validation is started while none runs, and a second one may be
\* started while it runs.
RaceCreate ==
    \/ \E q \in Quantities :
          /\ NumDocs < MaxRaceDocs
          /\ CreateReceipt(RaceWarehouse, <<[productId |-> RaceProduct,
                                             quantity |-> q]>>)
    \/ \E q \in Quantities :
          /\ NumDocs < MaxRaceDocs
          /\ CreateDelivery(RaceWarehouse, <<[productId |-> RaceProduct,
                                              quantity |-> q]>>)

RaceClickFirst(k, id) ==
    /\ \A j \in Invocations : inv[j].pc = "idle"
    /\ clicks < MaxRaceClicks
    /\ Click(1, k, id)
    /\ pre' = Snapshot(k, id)

RaceClickSecond(k, id) ==
    /\ inv[1].pc # "idle"
    /\ clicks < MaxRaceClicks
    /\ Click(2, k, id)
    /\ UNCHANGED pre

NextRace ==
    \/ RaceCreate
    \/ \E k \in {"receipt", "delivery"} : Load(k)
    \/ \E k \in {"receipt", "delivery"}, id \in 1 .. MaxRaceDocs :
          RaceClickFirst(k, id)
    \/ \E k \in {"receipt", "delivery"}, id \in 1 .. MaxRaceDocs :
          RaceClickSecond(k, id)
    \/ \E i \in Invocations :
          \/ ReceiptLines(i) \/ ReceiptRead(i) \/ ReceiptWrite(i)
          \/ ReceiptMove(i) \/ ReceiptStatus(i)
          \/ DeliveryLines(i) \/ DeliveryRead(i) \/ DeliveryWrite(i)
          \/ DeliveryMove(i) \/ DeliveryStatus(i)

SpecRace == Init /\ [][NextRace]_vars

\* One user receives and delivers one product at one warehouse, one
\* validation at a time, and validates a refused delivery again after more
\* stock has come in.
\* History kept for the properties: the deliveries of which an attempt was
\* refused for insufficient stock (the handler ended with the error toast
\* although the delivery has lines).
Rejected ==
    pre.rejected \cup
      (IF /\ inv[1].pc = "idle"
          /\ inv[1].kind = "delivery"
          /\ inv[1].toast = "error"
          /\ Len(delivery_lines[inv[1].id]) > 0
       THEN {inv[1].id} ELSE {})

\* the dialogs filled with rows of the one product, or rows left unselected
RetryRows ==
    {rows \in FormRows(MaxLines) :
        \A n \in DOMAIN rows : rows[n].productId \in {"", RaceProduct}}

RetryCreate ==
    \/ \E rows \in RetryRows :
          NumDocs < MaxRetryDocs /\ CreateReceipt(RaceWarehouse, rows)
    \/ \E rows \in RetryRows :
          NumDocs < MaxRetryDocs /\ CreateDelivery(RaceWarehouse, rows)

RetryClick(k, id) ==
    /\ \A j \in Invocations : inv[j].pc = "idle"
    /\ clicks < MaxRetryClicks
    /\ Click(1, k, id)
    /\ pre' = [Snapshot(k, id) EXCEPT !.rejected = Rejected]

NextRetry ==
    \/ RetryCreate
    \/ \E k \in {"receipt", "delivery"} : Load(k)
    \/ \E k \in {"receipt", "delivery"}, id \in 1 .. MaxRetryDocs :
          RetryClick(k, id)
    \/ ReceiptLines(1) \/ ReceiptRead(1) \/ ReceiptWrite(1)
    \/ ReceiptMove(1) \/ ReceiptStatus(1)
    \/ DeliveryLines(1) \/ DeliveryRead(1) \/ DeliveryWrite(1)
    \/ DeliveryMove(1) \/ DeliveryStatus(1)

SpecRetry == Init /\ [][NextRetry]_vars

\* The Dashboard and the Products page opened over a store that holds any
\* stock levels (one row per pair at most) and any reorder levels.
InitLow ==
    /\ stock_levels \in LevelSets
    /\ products \in [Products -> [reorder_level : ReorderLevels]]
    /\ stock_movements = EmptyBag
    /\ receipts = <<>>
    /\ receipt_lines = <<>>
    /\ deliveries = <<>>
    /\ delivery_lines = <<>>
    /\ internal_transfers = <<>>
    /\ stock_adjustments = <<>>
    /\ ui = [k \in Kinds |-> {}]
    /\ inv = [i \in Invocations |-> Idle]
    /\ form = FormInit
    /\ clicks = 0
    /\ pre = [levels |-> {}, moves |-> EmptyBag, status |-> "none",
              validated_at |-> 0, clicks |-> 0, rejected |-> {}]
    /\ dashboard = DashboardInit
    /\ productsPage = ProductsPageInit
    /\ failures = 0
    /\ notice = NoNotice

NextLow ==
    \/ DashboardProducts
    \/ DashboardStockLevels
    \/ DashboardCounts
    \/ ProductsLoadProducts
    \/ ProductsLoadStockLevels

SpecLow == InitLow /\ [][NextLow]_vars

(* ------------------------------ properties ----------------------------- *)
\* the invocation of the one-at-a-time specification, once it has returned
Returned(k) == inv[1].pc = "idle" /\ inv[1].kind = k /\ inv[1].toast # "none"

\* the store is as it was when the click was made
StoreUntouched ==
    stock_levels = pre.levels /\ stock_movements = pre.moves

\* the document of the returned invocation is as it was when the click was made
DocumentUntouched ==
    /\ Table(inv[1].kind)[inv[1].id].status = pre.status
    /\ Table(inv[1].kind)[inv[1].id].validated_at = pre.validated_at

\* at the time of the click the pair had no row, or less than q
Lacked(p, w, q) ==
    \/ \A r \in pre.levels : r.product_id # p \/ r.warehouse_id # w
    \/ \E r \in pre.levels :
          r.product_id = p /\ r.warehouse_id = w /\ r.quantity < q

RECURSIVE LineMovements(_, _, _, _, _)
\* one movement per line, of the given kind and sign
LineMovements(lines, w, type, sign, id) ==
    IF lines = <<>> THEN EmptyBag
    ELSE SetToBag({movement(Head(lines).product_id, w, type,
                            sign * Head(lines).quantity, type, id)})
         (+) LineMovements(Tail(lines), w, type, sign, id)

\* C1: a receipt with at least one line, validated alone, succeeds; the balance
\* of every product at the receipt's warehouse has grown by the sum of that
\* product's line quantities, and the ledger has grown by exactly one "receipt"
\* movement of +quantity per line, referencing the receipt.
C1_ReceiptPostsEveryLine ==
    (Returned("receipt") /\ Len(receipt_lines[inv[1].id]) >= 1) =>
        LET id == inv[1].id
            w == receipts[id].warehouse_id
        IN  /\ inv[1].toast = "success"
            /\ \A p \in Products :
                 Balance(stock_levels, p, w)
                   = Balance(pre.levels, p, w) + LineSum(receipt_lines[id], p)
            /\ stock_movements
                 = pre.moves (+) LineMovements(receipt_lines[id], w, "receipt",
                                               1, id)

\* a receipt with two lines of one product was validated over an existing row
C1_Witness ==
    /\ Returned("receipt")
    /\ inv[1].toast = "success"
    /\ Len(receipt_lines[inv[1].id]) = 2
    /\ receipt_lines[inv[1].id][1].product_id
         = receipt_lines[inv[1].id][2].product_id
    /\ single(pre.levels, receipt_lines[inv[1].id][1].product_id,
              receipts[inv[1].id].warehouse_id) # NoRow

\* C2: a delivery with a line, at any position, that asks for more than the
\* balance of its pair at the time of the click (or whose pair has no row) is
\* refused, and balances, ledger and the delivery's status are left as they
\* were.
C2_RefusedDeliveryChangesNothing ==
    (/\ Returned("delivery")
     /\ \E n \in 1 .. Len(delivery_lines[inv[1].id]) :
          Lacked(delivery_lines[inv[1].id][n].product_id,
                 deliveries[inv[1].id].warehouse_id,
                 delivery_lines[inv[1].id][n].quantity))
    => (inv[1].toast = "error" /\ StoreUntouched /\ DocumentUntouched)

\* C3: validating a document whose stored status is already "done" is refused
\* and changes no balance, no movement and neither status nor validated_at.
C3_DoneIsNotValidatedAgain ==
    (/\ inv[1].pc = "idle"
     /\ inv[1].toast # "none"
     /\ pre.status = "done")
    => (inv[1].toast = "error" /\ StoreUntouched /\ DocumentUntouched)

\* C4: in every reachable state, overlapping invocations included, the ledger
\* holds at most one posting per document: at most one movement per receipt or
\* delivery line, at most one transfer_out/transfer_in pair, at most one
\* adjustment movement.
C4_PostedAtMostOnce ==
    /\ \A id \in 1 .. Len(receipts) :
         PostedRows(stock_movements, "receipt", id) <= Len(receipt_lines[id])
    /\ \A id \in 1 .. Len(deliveries) :
         PostedRows(stock_movements, "delivery", id) <= Len(delivery_lines[id])
    /\ \A id \in 1 .. Len(internal_transfers) :
         PostedRows(stock_movements, "transfer", id) <= 2
    /\ \A id \in 1 .. Len(stock_adjustments) :
         PostedRows(stock_movements, "adjustment", id) <= 1

\* C5: whenever no validation is in progress, for every pair the signed sum of
\* its movements equals its balance (0 without a row).
C5_LedgerMatchesBalances ==
    (\A i \in Invocations : inv[i].pc = "idle") =>
        \A p \in Products, w \in Warehouses :
            LedgerSum(stock_movements, p, w) = Balance(stock_levels, p, w)

\* C6: in every reachable state, under any interleaving, every stock level is
\* greater than or equal to zero.
C6_StockNeverNegative == \A r \in stock_levels : r.quantity >= 0

\* C7: a transfer of q validated alone over a source balance of at least q
\* succeeds and appends exactly the transfer_out of -q at the source and the
\* transfer_in of +q at the destination; the source balance falls by q, the
\* destination balance rises by q, the product's total stays the same.
C7_TransferMovesQuantity ==
    LET t == internal_transfers[inv[1].id]
        src == t.source_warehouse_id
        dst == t.destination_warehouse_id
    IN  (/\ Returned("transfer")
         /\ ~Lacked(t.product_id, src, t.quantity))
        => /\ inv[1].toast = "success"
           /\ stock_movements = pre.moves
                (+) SetToBag({movement(t.product_id, src, "transfer_out",
                                       0 - t.quantity, "transfer", inv[1].id)})
                (+) SetToBag({movement(t.product_id, dst, "transfer_in",
                                       t.quantity, "transfer", inv[1].id)})
           /\ Balance(stock_levels, t.product_id, src)
                = Balance(pre.levels, t.product_id, src) - t.quantity
           /\ Balance(stock_levels, t.product_id, dst)
                = Balance(pre.levels, t.product_id, dst) + t.quantity
           /\ Balance(stock_levels, t.product_id, src)
                + Balance(stock_levels, t.product_id, dst)
                = Balance(pre.levels, t.product_id, src)
                  + Balance(pre.levels, t.product_id, dst)

\* a transfer was validated into a destination that already had a row
C7_Witness ==
    /\ Returned("transfer")
    /\ inv[1].toast = "success"
    /\ single(pre.levels, internal_transfers[inv[1].id].product_id,
              internal_transfers[inv[1].id].destination_warehouse_id) # NoRow

\* C8: the movement posted by an adjustment's validation has the stored
\* difference, which is counted_quantity minus the system quantity recorded at
\* creation, and afterwards the balance of the pair is counted_quantity,
\* whatever it was before.
C8_AdjustmentSetsCounted ==
    LET a == stock_adjustments[inv[1].id]
    IN  Returned("adjustment") =>
          /\ inv[1].toast = "success"
          /\ stock_movements = pre.moves
               (+) SetToBag({movement(a.product_id, a.warehouse_id,
                                      "adjustment",
                                      a.counted_quantity - a.system_quantity,
                                      "adjustment", inv[1].id)})
          /\ Balance(stock_levels, a.product_id, a.warehouse_id)
               = a.counted_quantity

\* an adjustment was validated over a balance other than the recorded one
C8_Witness ==
    /\ Returned("adjustment")
    /\ Balance(pre.levels, stock_adjustments[inv[1].id].product_id,
               stock_adjustments[inv[1].id].warehouse_id)
         # stock_adjustments[inv[1].id].system_quantity
    /\ stock_adjustments[inv[1].id].counted_quantity
         # stock_adjustments[inv[1].id].system_quantity

\* C9: a transfer whose source pair has no row, or less than the transfer
\* quantity, is refused; source and destination balances, the ledger and the
\* transfer's status stay as they were.
C9_RefusedTransferChangesNothing ==
    LET t == internal_transfers[inv[1].id]
    IN  (/\ Returned("transfer")
         /\ Lacked(t.product_id, t.source_warehouse_id, t.quantity))
        => (inv[1].toast = "error" /\ StoreUntouched /\ DocumentUntouched)

\* a transfer was refused over a source row that held too little
C9_Witness ==
    /\ Returned("transfer")
    /\ inv[1].toast = "error"
    /\ single(pre.levels, internal_transfers[inv[1].id].product_id,
              internal_transfers[inv[1].id].source_warehouse_id) # NoRow

\* C10: validating a receipt or a delivery without lines is refused; the
\* document stays "draft" with no validated_at, and no stock level and no
\* movement changes.
C10_EmptyDocumentRefused ==
    /\ (Returned("receipt") /\ Len(receipt_lines[inv[1].id]) = 0) =>
         /\ inv[1].toast = "error"
         /\ receipts[inv[1].id].status = "draft"
         /\ receipts[inv[1].id].validated_at = 0
         /\ StoreUntouched
    /\ (Returned("delivery") /\ Len(delivery_lines[inv[1].id]) = 0) =>
         /\ inv[1].toast = "error"
         /\ deliveries[inv[1].id].status = "draft"
         /\ deliveries[inv[1].id].validated_at = 0
         /\ StoreUntouched

\* an empty receipt was refused while the store held stock and movements
C10_Witness ==
    /\ Returned("receipt")
    /\ Len(receipt_lines[inv[1].id]) = 0
    /\ inv[1].toast = "error"
    /\ stock_levels # {}

\* C11: when a validation reports success the stored status of its document
\* is "done" and validated_at is set; when it reports a rejection (no lines,
\* insufficient stock) the stored status is as it was at the click.
C11_SuccessMeansDone ==
    (inv[1].pc = "idle" /\ inv[1].toast # "none") =>
        /\ inv[1].toast = "success" =>
              /\ Table(inv[1].kind)[inv[1].id].status = "done"
              /\ Table(inv[1].kind)[inv[1].id].validated_at # 0
        /\ inv[1].toast = "error" => DocumentUntouched

\* C15: when a store request of a validation has failed, the validation does
\* not end with the success notification and the document is not marked
\* "done" by it.
C15_StoreErrorsSurfaced ==
    (inv[1].pc = "idle" /\ inv[1].toast # "none" /\ inv[1].at # "none") =>
        (inv[1].toast # "success" /\ DocumentUntouched)

\* C16: a transfer validation that stops after the source has been reduced
\* and before the destination is credited leaves the source reduced by the
\* transfer quantity, the destination as it was, no movement of the transfer
\* in the ledger and the transfer's status as it was; the source balance is
\* not restored.
C16_StoppedTransferIsNotCompensated ==
    LET t == internal_transfers[inv[1].id]
    IN  (/\ Returned("transfer")
         /\ inv[1].toast = "failed"
         /\ inv[1].at \in {"t_dst_read", "t_dst_write"})
        => /\ Balance(stock_levels, t.product_id, t.source_warehouse_id)
                = Balance(pre.levels, t.product_id, t.source_warehouse_id)
                  - t.quantity
           /\ \A r \in pre.levels :
                 (r.product_id # t.product_id
                  \/ r.warehouse_id # t.source_warehouse_id) =>
                     r \in stock_levels
           /\ Cardinality(stock_levels) = Cardinality(pre.levels)
           /\ stock_movements = pre.moves
           /\ DocumentUntouched

\* a draft transfer stopped at the write of its destination, source reduced
C16_Witness ==
    /\ Returned("transfer")
    /\ inv[1].toast = "failed"
    /\ inv[1].at = "t_dst_write"
    /\ pre.status = "draft"
    /\ internal_transfers[inv[1].id].status = "draft"
    /\ stock_levels # pre.levels

\* the rows of a table before and after a step: none is dropped, a "done" row
\* stays "done" and keeps every column but validated_at, and a status that
\* changes becomes "done"
StatusOnlyMovesToDone(old, new) ==
    /\ Len(new) >= Len(old)
    /\ \A id \in 1 .. Len(old) :
         /\ old[id].status = "done" =>
               [new[id] EXCEPT !.validated_at = 0]
                 = [old[id] EXCEPT !.validated_at = 0]
         /\ new[id].status # old[id].status => new[id].status = "done"

\* the lines of the "done" headers are the same after the step
LinesOfDoneKept(headers, old, new) ==
    \A id \in 1 .. Len(headers) :
        headers[id].status = "done" => (id <= Len(new) /\ new[id] = old[id])

\* C12: "done" is final: no step of the application, overlapping validations
\* included, changes the status of a "done" document or its lines (for a
\* transfer or an adjustment, its product and quantities), and a status only
\* ever changes from a value other than "done" to "done".
C12_DoneIsFinal ==
    [][/\ StatusOnlyMovesToDone(receipts, receipts')
       /\ StatusOnlyMovesToDone(deliveries, deliveries')
       /\ StatusOnlyMovesToDone(internal_transfers, internal_transfers')
       /\ StatusOnlyMovesToDone(stock_adjustments, stock_adjustments')
       /\ LinesOfDoneKept(receipts, receipt_lines, receipt_lines')
       /\ LinesOfDoneKept(deliveries, delivery_lines, delivery_lines')]_vars

\* a "done" receipt whose validation has run to its end a second time
C12_Witness ==
    \E id \in 1 .. Len(receipts) :
        /\ receipts[id].status = "done"
        /\ receipts[id].validated_at >= 2
        /\ Len(receipt_lines[id]) >= 1
        /\ PostedRows(stock_movements, "receipt", id)
             = 2 * Len(receipt_lines[id])
        /\ \A i \in Invocations : inv[i].pc = "idle"

\* the ledger of the scenario after its n-th validation
ScenarioLedger(n) ==
    LET p == ScenarioProduct
        rows == <<{movement(p, "WH-MAIN", "receipt", 10, "receipt", 1)},
                  {movement(p, "WH-MAIN", "delivery", -4, "delivery", 1)},
                  {movement(p, "WH-MAIN", "transfer_out", -6, "transfer", 1),
                   movement(p, "WH-SEC", "transfer_in", 6, "transfer", 1)},
                  {movement(p, "WH-SEC", "adjustment", -4, "adjustment", 1)}>>
    IN  SetToBag(UNION {rows[m] : m \in 1 .. n})

\* C13: from balance 0, one product, one validation after the other: the
\* receipt of 10 at WH-MAIN gives balance 10 and the movement +10 receipt; the
\* delivery of 4 gives balance 6 and the movement -4 delivery; the transfer of
\* 6 to WH-SEC gives WH-MAIN 0 and WH-SEC 6 with -6 transfer_out and +6
\* transfer_in; the adjustment counted 2 at WH-SEC gives WH-SEC 2 and the
\* movement -4 adjustment; at the end each warehouse's movement sum equals
\* its balance.
C13_EndToEndScenario ==
    (inv[1].pc = "idle" /\ inv[1].toast # "none") =>
        LET p == ScenarioProduct
            main == Balance(stock_levels, p, "WH-MAIN")
            sec == Balance(stock_levels, p, "WH-SEC")
        IN  /\ inv[1].toast = "success"
            /\ stock_movements = ScenarioLedger(clicks)
            /\ clicks = 1 => (main = 10 /\ sec = 0)
            /\ clicks = 2 => (main = 6 /\ sec = 0)
            /\ clicks = 3 => (main = 0 /\ sec = 6)
            /\ clicks = 4 =>
                  /\ main = 0
                  /\ sec = 2
                  /\ \A w \in Warehouses :
                        LedgerSum(stock_movements, p, w)
                          = Balance(stock_levels, p, w)

\* the adjustment, last of the four, has been validated
C13_Witness ==
    /\ clicks = 4
    /\ Returned("adjustment")
    /\ stock_adjustments[1].status = "done"
    /\ stock_adjustments[1].system_quantity = 6

\* the movement of the one line of the receipt or delivery of an invocation
RaceMovement(me) ==
    IF me.kind = "receipt"
    THEN movement(RaceProduct, RaceWarehouse, "receipt",
                  receipt_lines[me.id][1].quantity, "receipt", me.id)
    ELSE movement(RaceProduct, RaceWarehouse, "delivery",
                  0 - delivery_lines[me.id][1].quantity, "delivery", me.id)

\* Two validations of different documents, and no third, have run at the same
\* time on the pair and both have read the same row (or both none) before
\* either wrote; the ledger matched the balance when the first was started.
Raced ==
    /\ \A i \in Invocations : inv[i].pc = "idle" /\ inv[i].toast = "success"
    /\ <<inv[1].kind, inv[1].id>> # <<inv[2].kind, inv[2].id>>
    /\ clicks = pre.clicks + 2
    /\ Table(inv[2].kind)[inv[2].id].validated_at = clicks
    /\ inv[1].existing = inv[2].existing
    /\ LedgerSum(pre.moves, RaceProduct, RaceWarehouse)
         = Balance(pre.levels, RaceProduct, RaceWarehouse)

\* C14: the lost update is reachable (C14_Witness), and whenever two
\* concurrent validations of different documents have read the same quantity
\* of the pair and each has written its own result, both documents are
\* "done", both movements are in the ledger, and the sum of the pair's
\* movements differs from the pair's balance.
C14_LostUpdate ==
    Raced =>
        /\ \A i \in Invocations : Table(inv[i].kind)[inv[i].id].status = "done"
        /\ stock_movements = pre.moves (+) SetToBag({RaceMovement(inv[1])})
                                       (+) SetToBag({RaceMovement(inv[2])})
        /\ LedgerSum(stock_movements, RaceProduct, RaceWarehouse)
             # Balance(stock_levels, RaceProduct, RaceWarehouse)

\* a receipt and a delivery have raced over an existing row
C14_Witness ==
    /\ Raced
    /\ inv[1].existing # NoRow
    /\ {inv[1].kind, inv[2].kind} = {"receipt", "delivery"}

\* the sum of a product's stock levels over all warehouses, 0 without rows
TotalBalance(p) ==
    Balance(stock_levels, p, "WH-MAIN") + Balance(stock_levels, p, "WH-SEC")

\* the products whose total balance is at most their reorder level
LowStock == {p \in Products : TotalBalance(p) <= products[p].reorder_level}

\* C17: a product is low-stock exactly when the sum of its stock levels over
\* all warehouses (0 without a row) is at most its reorder_level: these are
\* the products the Products page marks "Low Stock", their number is the
\* Dashboard's low-stock count, and the two pages agree.
C17_LowStock ==
    /\ productsPage.pending = {} =>
          {product.id : product \in LowStockMarked(productsPage)} = LowStock
    /\ dashboard.pc = "loaded" =>
          dashboard.lowStockItems = Cardinality(LowStock)
    /\ (productsPage.pending = {} /\ dashboard.pc = "loaded") =>
          dashboard.lowStockItems
            = Cardinality(LowStockMarked(productsPage))

\* both pages are loaded; one product is low with its total exactly at its
\* reorder level, made of two rows, the other product is not low
C17_Witness ==
    /\ productsPage.pending = {}
    /\ dashboard.pc = "loaded"
    /\ dashboard.lowStockItems = 1
    /\ \E p \in Products :
          /\ TotalBalance(p) = products[p].reorder_level
          /\ Cardinality({r \in stock_levels : r.product_id = p}) = 2

\* the pair a balance write of the invocation is aimed at, the quantity a new
\* row is to get, and the quantity an existing row is to get
WriteTarget(me) ==
    CASE me.pc = "r_write" ->
           [product_id |-> Line(me).product_id,
            warehouse_id |-> receipts[me.id].warehouse_id,
            created |-> Line(me).quantity,
            added |-> Line(me).quantity, counted |-> FALSE]
      [] me.pc = "t_dst_write" ->
           [product_id |-> Transfer(me).product_id,
            warehouse_id |-> Transfer(me).destination_warehouse_id,
            created |-> Transfer(me).quantity,
            added |-> Transfer(me).quantity, counted |-> FALSE]
      [] me.pc = "a_write" ->
           [product_id |-> Adjustment(me).product_id,
            warehouse_id |-> Adjustment(me).warehouse_id,
            created |-> Adjustment(me).counted_quantity,
            added |-> 0, counted |-> TRUE]

\* the rows of a pair
RowsOf(levels, p, w) ==
    {r \in levels : r.product_id = p /\ r.warehouse_id = w}

\* C18: when the balance write of a receipt line, of a transfer's destination
\* or of an adjustment finds no row for its pair, exactly one row is created
\* for the pair, with the line quantity, the transfer quantity or the counted
\* quantity; when the pair has a row, that row is updated in place and no
\* second row is created.  (Validations one at a time.)
C18_CreateIfAbsent ==
    [][(/\ inv[1].pc \in {"r_write", "t_dst_write", "a_write"}
        /\ inv'[1].pc # inv[1].pc) =>
          LET t == WriteTarget(inv[1])
              old == RowsOf(stock_levels, t.product_id, t.warehouse_id)
              new == RowsOf(stock_levels', t.product_id, t.warehouse_id)
          IN  /\ stock_levels' \ new = stock_levels \ old
              /\ IF old = {}
                 THEN new = {[product_id |-> t.product_id,
                              warehouse_id |-> t.warehouse_id,
                              quantity |-> t.created]}
                 ELSE /\ Cardinality(old) = 1
                      /\ Cardinality(new) = 1
                      /\ \A r \in old, r2 \in new :
                            r2.quantity = IF t.counted THEN t.created
                                          ELSE r.quantity + t.added]_vars

\* a transfer has just created the row of its destination, which had none
C18_Witness ==
    /\ inv[1].pc = "t_moves"
    /\ RowsOf(pre.levels, Transfer(inv[1]).product_id,
              Transfer(inv[1]).destination_warehouse_id) = {}
    /\ RowsOf(stock_levels, Transfer(inv[1]).product_id,
              Transfer(inv[1]).destination_warehouse_id)
         = {[product_id |-> Transfer(inv[1]).product_id,
             warehouse_id |-> Transfer(inv[1]).destination_warehouse_id,
             quantity |-> Transfer(inv[1]).quantity]}

\* For each position of a handler: the table its one pending request writes
\* ("none" for a read) and the positions that may follow it.
RequestOrder ==
    [r_lines |-> [writes |-> "none", then |-> {"r_read", "idle"}],
     r_read |-> [writes |-> "none", then |-> {"r_write"}],
     r_write |-> [writes |-> "stock_levels", then |-> {"r_move"}],
     r_move |-> [writes |-> "stock_movements", then |-> {"r_read", "r_status"}],
     r_status |-> [writes |-> "document", then |-> {"idle"}],
     d_lines |-> [writes |-> "none", then |-> {"d_read", "idle"}],
     d_read |-> [writes |-> "none", then |-> {"d_write", "idle"}],
     d_write |-> [writes |-> "stock_levels", then |-> {"d_move"}],
     d_move |-> [writes |-> "stock_movements", then |-> {"d_read", "d_status"}],
     d_status |-> [writes |-> "document", then |-> {"idle"}],
     t_src_read |-> [writes |-> "none", then |-> {"t_src_write", "idle"}],
     t_src_write |-> [writes |-> "stock_levels", then |-> {"t_dst_read"}],
     t_dst_read |-> [writes |-> "none", then |-> {"t_dst_write"}],
     t_dst_write |-> [writes |-> "stock_levels", then |-> {"t_moves"}],
     t_moves |-> [writes |-> "stock_movements", then |-> {"t_status"}],
     t_status |-> [writes |-> "document", then |-> {"idle"}],
     a_read |-> [writes |-> "none", then |-> {"a_write"}],
     a_write |-> [writes |-> "stock_levels", then |-> {"a_move"}],
     a_move |-> [writes |-> "stock_movements", then |-> {"a_status"}],
     a_status |-> [writes |-> "document", then |-> {"idle"}]]

\* one step of a running handler, from record a to record b, keeps to the order
InOrder(a, b) ==
    LET o == RequestOrder[a.pc]
    IN  /\ b.pc \in o.then
        /\ o.writes # "stock_levels" => stock_levels' = stock_levels
        /\ o.writes # "stock_movements" => stock_movements' = stock_movements
        /\ o.writes # "document" => docs' = docs
        /\ b.pc \in {"r_read", "d_read"} =>
              b.idx = (IF a.pc \in {"r_lines", "d_lines"} THEN 1
                       ELSE a.idx + 1)
        /\ b.pc \in {"r_write", "r_move", "d_write", "d_move"} =>
              b.idx = a.idx
        /\ b.pc \in {"r_status", "d_status"} => a.idx = Len(a.lines)
        /\ (o.writes = "document" /\ a.kind \in {"receipt", "delivery"}) =>
              a.idx = Len(a.lines)

\* C19: a validation has one request pending at a time, and its requests
\* follow the order of the handler: per line the balance read, then the
\* balance write, then the movement insert; the next line's read after the
\* previous line's movement; the status update after the writes and
\* movements of every line; for a transfer source deduction, destination
\* credit, both movements, status.  Each step performs the one request of
\* its position and touches no other table.
C19_StepOrdering ==
    [][\A i \in Invocations :
          (inv[i].pc # "idle" /\ inv'[i] # inv[i]) =>
              InOrder(inv[i], inv'[i])]_vars

\* the second line of a receipt is about to be read, the first one posted
C19_Witness ==
    /\ inv[1].pc = "r_read"
    /\ inv[1].idx = 2
    /\ PostedRows(stock_movements, "receipt", inv[1].id) >= 1
    /\ receipts[inv[1].id].status = "draft"

\* C20: the ledger is append-only: in every step, overlapping validations
\* included, every movement row of the ledger is still in it afterwards, as
\* many times and with the product, warehouse, kind, quantity and document
\* reference it was inserted with; rows are only added.
C20_LedgerAppendOnly ==
    [][stock_movements \sqsubseteq stock_movements']_vars

\* the ledger holds movements of two different documents
C20_Witness ==
    \E m1, m2 \in BagToSet(stock_movements) :
        <<m1.reference_type, m1.reference_id>>
          # <<m2.reference_type, m2.reference_id>>

\* C21: every validation ends and notifies exactly once: while a handler runs
\* it has shown no toast, once it has returned it has shown exactly one
\* (success, rejection or failure), and a running handler whose requests are
\* answered returns.
C21_EndsWithOneToast ==
    /\ [](\A i \in Invocations :
            /\ inv[i].pc # "idle" => inv[i].notified = 0
            /\ (inv[i].pc = "idle" /\ inv[i].kind # "none") =>
                  /\ inv[i].notified = 1
                  /\ inv[i].toast \in {"success", "error", "failed"})
    /\ (inv[1].pc # "idle") ~> (inv[1].pc = "idle")

\* a validation whose movement insert rejected has ended with the failure toast
C21_Witness ==
    /\ Returned("delivery")
    /\ inv[1].toast = "failed"
    /\ inv[1].at = "d_move"
    /\ inv[1].notified = 1

\* C22: validating a receipt, delivery or transfer whose stored status is
\* "canceled" changes no stock level, appends no movement and does not set
\* the status to "done".
C22_CanceledIsNotPosted ==
    (/\ inv[1].pc = "idle"
     /\ inv[1].toast # "none"
     /\ pre.status = "canceled")
    => /\ StoreUntouched
       /\ Table(inv[1].kind)[inv[1].id].status # "done"

\* C23: a delivery that is validated to "done" after earlier attempts were
\* refused for insufficient stock has, over all its attempts, exactly one
\* "delivery" movement per line, and the amounts taken for it from each
\* product's balance add up to the sum of that product's line quantities.
C23_RetryPostsEachLineOnce ==
    (/\ Returned("delivery")
     /\ inv[1].toast = "success"
     /\ pre.status = "draft"
     /\ inv[1].id \in pre.rejected)
    => LET id == inv[1].id
           own == {m \in BagToSet(stock_movements) :
                     m.reference_type = "delivery" /\ m.reference_id = id}
       IN  /\ PostedRows(stock_movements, "delivery", id)
                = Len(delivery_lines[id])
           /\ \A p \in Products :
                 SumSet(stock_movements, {m \in own : m.product_id = p})
                   = 0 - LineSum(delivery_lines[id], p)

\* C24: the system_quantity stored with a new adjustment is a balance that a
\* lookup has read for the pair selected at the submit, whatever the order in
\* which the lookups were answered, and the stored difference is
\* counted_quantity minus that system_quantity.
C24_SystemQuantityOfSelectedPair ==
    [][Len(stock_adjustments') > Len(stock_adjustments) =>
          LET a == stock_adjustments'[Len(stock_adjustments')]
          IN  /\ form.readFor = <<a.product_id, a.warehouse_id>>
              /\ a.system_quantity = form.systemQty
              /\ a.difference = a.counted_quantity - a.system_quantity]_vars

\* what a delivery validated alone has taken from a product's balance so far
Deducted(p) ==
    Balance(pre.levels, p, deliveries[inv[1].id].warehouse_id)
      - Balance(stock_levels, p, deliveries[inv[1].id].warehouse_id)

FramePairs(k, id) ==
    CASE k = "receipt" ->
           {<<receipt_lines[id][n].product_id, receipts[id].warehouse_id>> :
              n \in 1 .. Len(receipt_lines[id])}
      [] k = "delivery" ->
           {<<delivery_lines[id][n].product_id, deliveries[id].warehouse_id>> :
              n \in 1 .. Len(delivery_lines[id])}
      [] k = "transfer" ->
           {<<internal_transfers[id].product_id,
              internal_transfers[id].source_warehouse_id>>,
            <<internal_transfers[id].product_id,
              internal_transfers[id].destination_warehouse_id>>}
      [] k = "adjustment" ->
           {<<stock_adjustments[id].product_id,
              stock_adjustments[id].warehouse_id>>}

\* a step leaves every header but that of document (k, id) as it was
OtherDocumentsKept(k, id) ==
    /\ \A n \in 1 .. Len(receipts) :
          (k # "receipt" \/ n # id) => receipts'[n] = receipts[n]
    /\ \A n \in 1 .. Len(deliveries) :
          (k # "delivery" \/ n # id) => deliveries'[n] = deliveries[n]
    /\ \A n \in 1 .. Len(internal_transfers) :
          (k # "transfer" \/ n # id) =>
              internal_transfers'[n] = internal_transfers[n]
    /\ \A n \in 1 .. Len(stock_adjustments) :
          (k # "adjustment" \/ n # id) =>
              stock_adjustments'[n] = stock_adjustments[n]
    /\ UNCHANGED <<receipt_lines, delivery_lines>>

\* C26: every step of a validation, overlapping validations included, changes
\* only stock levels of pairs its document names, appends only movements
\* that reference its document, and changes no other document.
C26_ValidationFrame ==
    [][\A i \in Invocations :
          (inv[i].pc # "idle" /\ inv'[i] # inv[i]) =>
              /\ \A r \in (stock_levels \ stock_levels')
                            \cup (stock_levels' \ stock_levels) :
                    <<r.product_id, r.warehouse_id>>
                      \in FramePairs(inv[i].kind, inv[i].id)
              /\ stock_movements \sqsubseteq stock_movements'
              /\ \A m \in BagToSet(stock_movements') :
                    CopiesIn(m, stock_movements')
                      > CopiesIn(m, stock_movements) =>
                        /\ m.reference_type = inv[i].kind
                        /\ m.reference_id = inv[i].id
              /\ OtherDocumentsKept(inv[i].kind, inv[i].id)]_vars

\* a validation has just written a balance while the store holds a row of
\* the same product at a warehouse its document does not name, and a second
\* document exists
C26_Witness ==
    \E i \in Invocations :
        /\ inv[i].pc \in {"r_move", "d_move", "t_moves", "a_move"}
        /\ \E r \in stock_levels :
              /\ <<r.product_id, r.warehouse_id>>
                    \notin FramePairs(inv[i].kind, inv[i].id)
              /\ \E pw \in FramePairs(inv[i].kind, inv[i].id) :
                    pw[1] = r.product_id
        /\ NumDocs >= 2

\* C27: every pair has at most one stock level row in every reachable state;
\* when a validation that had found no row for its pair comes to insert one
\* after another validation has created it, the store refuses the insert and
\* the row keeps the quantity the first writer gave it.
C27_OneRowPerPair ==
    /\ [](\A p \in Products, w \in Warehouses :
            Cardinality(RowsOf(stock_levels, p, w)) <= 1)
    /\ [][\A i \in Invocations :
            (/\ inv[i].pc \in {"r_write", "t_dst_write", "a_write"}
             /\ inv'[i] # inv[i]
             /\ inv[i].existing = NoRow
             /\ RowsOf(stock_levels, WriteTarget(inv[i]).product_id,
                       WriteTarget(inv[i]).warehouse_id) # {})
            => stock_levels' = stock_levels]_vars

\* two receipts that both found no row for their pair have both gone past
\* their insert: the pair has one row, with the quantity of one line
C27_Witness ==
    /\ inv[1].pc = "r_move"
    /\ inv[2].pc = "r_move"
    /\ inv[1].existing = NoRow
    /\ inv[2].existing = NoRow
    /\ inv[1].id # inv[2].id
    /\ Line(inv[1]).product_id = Line(inv[2]).product_id
    /\ receipts[inv[1].id].warehouse_id = receipts[inv[2].id].warehouse_id
    /\ RowsOf(stock_levels, Line(inv[1]).product_id,
              receipts[inv[1].id].warehouse_id)
         = {[product_id |-> Line(inv[1]).product_id,
             warehouse_id |-> receipts[inv[1].id].warehouse_id,
             quantity |-> Line(inv[1]).quantity]}

\* C28: every line stored by the receipt and delivery dialogs has a product
\* and a quantity above zero; hence every "receipt" and every "transfer_in"
\* movement has a quantity above zero and every "delivery" and every
\* "transfer_out" movement a quantity below zero, the transfers being those
\* created with a quantity of at least 1.
C28_MovementSignFollowsKind ==
    /\ \A id \in 1 .. Len(receipt_lines) :
          \A n \in 1 .. Len(receipt_lines[id]) :
              /\ receipt_lines[id][n].product_id \in Products
              /\ receipt_lines[id][n].quantity > 0
    /\ \A id \in 1 .. Len(delivery_lines) :
          \A n \in 1 .. Len(delivery_lines[id]) :
              /\ delivery_lines[id][n].product_id \in Products
              /\ delivery_lines[id][n].quantity > 0
    /\ \A m \in BagToSet(stock_movements) :
          /\ m.movement_type = "receipt" => m.quantity > 0
          /\ m.movement_type = "delivery" => m.quantity < 0
          /\ (/\ m.movement_type \in {"transfer_in", "transfer_out"}
              /\ internal_transfers[m.reference_id].quantity >= 1) =>
                IF m.movement_type = "transfer_in" THEN m.quantity > 0
                ELSE m.quantity < 0

\* the ledger holds the movement of a receipt line and that of a delivery
\* line
C28_Witness ==
    \E m1, m2 \in BagToSet(stock_movements) :
        /\ m1.movement_type = "receipt"
        /\ m2.movement_type = "delivery"
        /\ Len(receipt_lines[m1.reference_id]) >= 1
        /\ Len(delivery_lines[m2.reference_id]) >= 1

\* C29: the Create Transfer dialog submitted with the source warehouse equal
\* to the destination is answered with the error toast and inserts no
\* transfer; every stored transfer has a source different from its
\* destination.
C29_TransferEndpointsDiffer ==
    /\ [](/\ \A id \in 1 .. Len(internal_transfers) :
               internal_transfers[id].source_warehouse_id
                 # internal_transfers[id].destination_warehouse_id
          /\ (notice.toast # "none" /\ notice.source = notice.destination)
                => notice.toast = "error")
    /\ [][(notice' # notice /\ notice'.source = notice'.destination)
            => internal_transfers' = internal_transfers]_vars

\* a submit with equal warehouses was refused after a transfer had been stored
C29_Witness ==
    /\ notice.toast = "error"
    /\ notice.source = notice.destination
    /\ notice.source \in Warehouses
    /\ Len(internal_transfers) = 1

====
